---- MODULE Spec2Model ----
(***************************************************************************)
(* A model of the tetris engine of src/main.rs: the seven tetromino        *)
(* shapes (placement_at), the grid (Grid::new, can_place, is_row_filled,   *)
(* place, height) and the driver solve that feeds a comma separated line   *)
(* of tokens to one grid.                                                  *)
(***************************************************************************)
EXTENDS Integers, Sequences, FiniteSets, TLC

\* dimensions given in the requirements
GRID_WIDTH == 10
GRID_HEIGHT == 100

\* number of tokens of the input line that are chosen freely after the
\* scripted line
MaxFree == 1
\* anchors tried on the shape catalog: 0..MaxX x 0..MaxY
MaxX == 11
MaxY == 102

Shapes == {"Q", "Z", "S", "T", "I", "L", "J"}
\* the columns solve can hand to place: one decimal digit
Columns == 0 .. 9

VARIABLES squares, first_blank, status, script, pos, free, reported, last, cat

vars == <<squares, first_blank, status, script, pos, free, reported, last, cat>>

----------------------------------------------------------------------------
\* Tetromino

width(T) ==
  CASE T = "Q" -> 2
    [] T = "Z" -> 3
    [] T = "S" -> 3
    [] T = "T" -> 3
    [] T = "I" -> 4
    [] T = "L" -> 2
    [] T = "J" -> 2

height(T) ==
  CASE T = "Q" -> 2
    [] T = "Z" -> 2
    [] T = "S" -> 2
    [] T = "T" -> 2
    [] T = "I" -> 1
    [] T = "L" -> 3
    [] T = "J" -> 3

\* layout with the squares of L listed from the top down
layout_l_reversed(T, x, y) ==
  CASE T = "Q" -> << <<x, y>>, <<x + 1, y>>, <<x, y + 1>>, <<x + 1, y + 1>> >>
    [] T = "Z" -> << <<x + 1, y>>, <<x + 2, y>>, <<x, y + 1>>, <<x + 1, y + 1>> >>
    [] T = "S" -> << <<x, y>>, <<x + 1, y>>, <<x + 1, y + 1>>, <<x + 2, y + 1>> >>
    [] T = "T" -> << <<x + 1, y>>, <<x, y + 1>>, <<x + 1, y + 1>>, <<x + 2, y + 1>> >>
    [] T = "I" -> << <<x, y>>, <<x + 1, y>>, <<x + 2, y>>, <<x + 3, y>> >>
    [] T = "L" -> << <<x, y + 2>>, <<x, y + 1>>, <<x, y>>, <<x + 1, y>> >>
    [] T = "J" -> << <<x, y>>, <<x + 1, y>>, <<x + 1, y + 1>>, <<x + 1, y + 2>> >>

\* layout with T drawn with its stem on top
layout_t_flipped(T, x, y) ==
  CASE T = "Q" -> << <<x, y>>, <<x + 1, y>>, <<x, y + 1>>, <<x + 1, y + 1>> >>
    [] T = "Z" -> << <<x + 1, y>>, <<x + 2, y>>, <<x, y + 1>>, <<x + 1, y + 1>> >>
    [] T = "S" -> << <<x, y>>, <<x + 1, y>>, <<x + 1, y + 1>>, <<x + 2, y + 1>> >>
    [] T = "T" -> << <<x, y>>, <<x + 1, y>>, <<x + 2, y>>, <<x + 1, y + 1>> >>
    [] T = "I" -> << <<x, y>>, <<x + 1, y>>, <<x + 2, y>>, <<x + 3, y>> >>
    [] T = "L" -> << <<x, y>>, <<x + 1, y>>, <<x, y + 1>>, <<x, y + 2>> >>
    [] T = "J" -> << <<x, y>>, <<x + 1, y>>, <<x + 1, y + 1>>, <<x + 1, y + 2>> >>

\* the four squares of a shape anchored at (x, y), in the order of the source
layout(T, x, y) ==
  CASE T = "Q" -> << <<x, y>>, <<x + 1, y>>, <<x, y + 1>>, <<x + 1, y + 1>> >>
    [] T = "Z" -> << <<x + 1, y>>, <<x + 2, y>>, <<x, y + 1>>, <<x + 1, y + 1>> >>
    [] T = "S" -> << <<x, y>>, <<x + 1, y>>, <<x + 1, y + 1>>, <<x + 2, y + 1>> >>
    [] T = "T" -> << <<x + 1, y>>, <<x, y + 1>>, <<x + 1, y + 1>>, <<x + 2, y + 1>> >>
    [] T = "I" -> << <<x, y>>, <<x + 1, y>>, <<x + 2, y>>, <<x + 3, y>> >>
    [] T = "L" -> << <<x, y>>, <<x + 1, y>>, <<x, y + 1>>, <<x, y + 2>> >>
    [] T = "J" -> << <<x, y>>, <<x + 1, y>>, <<x + 1, y + 1>>, <<x + 1, y + 2>> >>

\* placement_at with >= for > in the bounds check
placement_at_ge(T, at) ==
  LET x == at[1]
      y == at[2]
  IN IF x >= (GRID_WIDTH - width(T)) \/ y >= (GRID_HEIGHT - height(T))
       THEN [ok |-> FALSE, cells |-> << >>]
       ELSE [ok |-> TRUE, cells |-> layout(T, x, y)]

\* placement_at with a bounds check that leaves out the height of the shape
placement_at_no_height(T, at) ==
  LET x == at[1]
      y == at[2]
  IN IF x > (GRID_WIDTH - width(T)) \/ y > (GRID_HEIGHT - 1)
       THEN [ok |-> FALSE, cells |-> << >>]
       ELSE [ok |-> TRUE, cells |-> layout(T, x, y)]

\* Result<Placement, &str>: ok = FALSE is Err("out of bound")
placement_at(T, at) ==
  LET x == at[1]
      y == at[2]
  IN IF x > (GRID_WIDTH - width(T)) \/ y > (GRID_HEIGHT - height(T))
       THEN [ok |-> FALSE, cells |-> << >>]
       ELSE [ok |-> TRUE, cells |-> layout(T, x, y)]

----------------------------------------------------------------------------
\* Grid

BlankRow == [x \in 1 .. 10 |-> FALSE]

\* Grid::new: squares is a vector of 100 rows of 10 booleans; row y of the
\* source is element y + 1 here, column x is element x + 1
new_squares == [y \in 1 .. 100 |-> BlankRow]

square(sq, x, y) == sq[y + 1][x + 1]

\* is_row_filled with any for all
is_row_filled_any(sq, y) == \E x \in DOMAIN sq[y + 1] : sq[y + 1][x]

is_row_filled(sq, y) == \A x \in DOMAIN sq[y + 1] : sq[y + 1][x]

can_place(sq, p) == \A k \in DOMAIN p : ~square(sq, p[k][1], p[k][2])

\* scan without the break: blocked rows are skipped
scan_tunnel(sq, T, column, row, placement) ==
  LET errs == {r \in 0 .. row : ~placement_at(T, <<column, r>>).ok}
      fits == {r \in 0 .. row : LET p == placement_at(T, <<column, r>>)
                                IN p.ok /\ can_place(sq, p.cells)}
      low == IF fits = {} THEN [cells |-> placement.cells, row |-> placement.row]
             ELSE LET r == CHOOSE f \in fits : \A q \in fits : f <= q
                  IN [cells |-> placement_at(T, <<column, r>>).cells, row |-> r]
  IN IF errs # {} THEN [ok |-> FALSE, cells |-> placement.cells, row |-> placement.row]
     ELSE [ok |-> TRUE, cells |-> low.cells, row |-> low.row]

\* scan over the rows first_blank - 1 down to 1
scan_floor1(sq, T, column, row, placement) ==
  LET stops == {r \in 1 .. row : LET p == placement_at(T, <<column, r>>)
                                 IN ~p.ok \/ ~can_place(sq, p.cells)}
  IN IF stops = {}
       THEN IF row < 1 THEN [ok |-> TRUE, cells |-> placement.cells, row |-> placement.row]
            ELSE [ok |-> TRUE, cells |-> placement_at(T, <<column, 1>>).cells, row |-> 1]
       ELSE LET stop == CHOOSE r \in stops : \A q \in stops : q <= r
                found == IF stop = row
                           THEN [cells |-> placement.cells, row |-> placement.row]
                           ELSE [cells |-> placement_at(T, <<column, stop + 1>>).cells,
                                 row |-> stop + 1]
            IN [ok |-> placement_at(T, <<column, stop>>).ok,
                cells |-> found.cells, row |-> found.row]

\* scan that stops after the first row that fits
scan_one_step(sq, T, column, row, placement) ==
  IF row < 0 THEN [ok |-> TRUE, cells |-> placement.cells, row |-> placement.row]
  ELSE LET p == placement_at(T, <<column, row>>)
       IN IF ~p.ok THEN [ok |-> FALSE, cells |-> placement.cells, row |-> placement.row]
          ELSE IF can_place(sq, p.cells)
                 THEN [ok |-> TRUE, cells |-> p.cells, row |-> row]
                 ELSE [ok |-> TRUE, cells |-> placement.cells, row |-> placement.row]

\* scan that asks for the candidate placement at (row, column)
scan_swapped(sq, T, column, row, placement) ==
  LET stops == {r \in 0 .. row : LET p == placement_at(T, <<r, column>>)
                                 IN ~p.ok \/ ~can_place(sq, p.cells)}
  IN IF stops = {}
       THEN IF row < 0 THEN [ok |-> TRUE, cells |-> placement.cells, row |-> placement.row]
            ELSE [ok |-> TRUE, cells |-> placement_at(T, <<0, column>>).cells, row |-> 0]
       ELSE LET stop == CHOOSE r \in stops : \A q \in stops : q <= r
                found == IF stop = row
                           THEN [cells |-> placement.cells, row |-> placement.row]
                           ELSE [cells |-> placement_at(T, <<stop + 1, column>>).cells,
                                 row |-> stop + 1]
            IN [ok |-> placement_at(T, <<stop, column>>).ok,
                cells |-> found.cells, row |-> found.row]

\* the loop of place over the rows below first_blank, from row downwards;
\* placement is the placement found before the loop and row the first row
\* visited.  The loop visits the rows in descending order and ends at the
\* first one (stop) whose candidate is out of bounds (the call fails) or
\* does not fit (break); the placement kept is the one of the row visited
\* just before, and row 0 when no row ends the loop.
scan(sq, T, column, row, placement) ==
  LET stops == {r \in 0 .. row : LET p == placement_at(T, <<column, r>>)
                                 IN ~p.ok \/ ~can_place(sq, p.cells)}
  IN IF stops = {}
       THEN IF row < 0 THEN [ok |-> TRUE, cells |-> placement.cells, row |-> placement.row]
            ELSE [ok |-> TRUE, cells |-> placement_at(T, <<column, 0>>).cells, row |-> 0]
       ELSE LET stop == CHOOSE r \in stops : \A q \in stops : q <= r
                found == IF stop = row
                           THEN [cells |-> placement.cells, row |-> placement.row]
                           ELSE [cells |-> placement_at(T, <<column, stop + 1>>).cells,
                                 row |-> stop + 1]
            IN [ok |-> placement_at(T, <<column, stop>>).ok,
                cells |-> found.cells, row |-> found.row]

\* mark that writes the third square twice and the fourth never
mark_third_twice(sq, p) ==
  [sq EXCEPT ![p[1][2] + 1][p[1][1] + 1] = TRUE,
             ![p[2][2] + 1][p[2][1] + 1] = TRUE,
             ![p[3][2] + 1][p[3][1] + 1] = TRUE,
             ![p[3][2] + 1][p[3][1] + 1] = TRUE]

\* for_each(|(x, y)| squares[y][x] = true)
mark(sq, p) ==
  [sq EXCEPT ![p[1][2] + 1][p[1][1] + 1] = TRUE,
             ![p[2][2] + 1][p[2][1] + 1] = TRUE,
             ![p[3][2] + 1][p[3][1] + 1] = TRUE,
             ![p[4][2] + 1][p[4][1] + 1] = TRUE]

\* remove of the row above y
remove_above(sq, y) == SubSeq(sq, 1, y + 1) \o SubSeq(sq, y + 3, Len(sq))

\* squares.remove(y)
remove(sq, y) == SubSeq(sq, 1, y) \o SubSeq(sq, y + 2, Len(sq))

\* push that puts the blank row at the bottom of the grid
push_front(sq) == <<BlankRow>> \o sq

\* squares.push(vec![false; 10])
push(sq) == Append(sq, BlankRow)

max(a, b) == IF a >= b THEN a ELSE b

\* clear_rows without the decrement of first_blank
RECURSIVE clear_rows_keep(_, _, _, _, _, _)
clear_rows_keep(sq, fb, top, i, h, n) ==
  IF i >= h THEN [squares |-> sq, first_blank |-> fb, cleared |-> n, panic |-> FALSE]
  ELSE LET y == top - i
       IN IF y < 0 \/ y >= Len(sq)
            THEN [squares |-> sq, first_blank |-> fb, cleared |-> n, panic |-> TRUE]
          ELSE IF is_row_filled(sq, y)
            THEN clear_rows_keep(push(remove(sq, y)), fb, top, i + 1, h, n + 1)
          ELSE clear_rows_keep(sq, fb, top, i + 1, h, n)

\* clear_rows over the span from the bottom row up, the row indexes still
\* computed from the original top
RECURSIVE clear_rows_bottom_up(_, _, _, _, _, _)
clear_rows_bottom_up(sq, fb, top, i, h, n) ==
  IF i >= h THEN [squares |-> sq, first_blank |-> fb, cleared |-> n, panic |-> FALSE]
  ELSE LET y == top - (h - 1) + i
       IN IF y < 0 \/ y >= Len(sq)
            THEN [squares |-> sq, first_blank |-> fb, cleared |-> n, panic |-> TRUE]
          ELSE IF is_row_filled(sq, y)
            THEN IF fb = 0
                   THEN [squares |-> push(remove(sq, y)), first_blank |-> fb,
                         cleared |-> n, panic |-> TRUE]
                   ELSE clear_rows_bottom_up(push(remove(sq, y)), fb - 1, top, i + 1, h, n + 1)
          ELSE clear_rows_bottom_up(sq, fb, top, i + 1, h, n)

\* the loop of place that removes the filled rows, from iteration i on;
\* n counts the rows removed, panic is an index below 0 or past the end or a
\* decrement of first_blank at 0
RECURSIVE clear_rows(_, _, _, _, _, _)
clear_rows(sq, fb, top, i, h, n) ==
  IF i >= h THEN [squares |-> sq, first_blank |-> fb, cleared |-> n, panic |-> FALSE]
  ELSE LET y == top - i
       IN IF y < 0 \/ y >= Len(sq)
            THEN [squares |-> sq, first_blank |-> fb, cleared |-> n, panic |-> TRUE]
          ELSE IF is_row_filled(sq, y)
            THEN IF fb = 0
                   THEN [squares |-> push(remove(sq, y)), first_blank |-> fb,
                         cleared |-> n, panic |-> TRUE]
                   ELSE clear_rows(push(remove(sq, y)), fb - 1, top, i + 1, h, n + 1)
          ELSE clear_rows(sq, fb, top, i + 1, h, n)

\* first_blank set to the row above the piece, without the max
raise_top(fb, top, T) == top + 1

\* first_blank raised one row too far
raise_top2(fb, top, T) == max(fb, top + 2)

\* new value of first_blank once the placement is marked
raise(fb, top, T) == max(fb, top + 1)

\* rejected with the squares of the baseline that are inside the grid
\* marked before the error is returned
rejected_marked(sq, fb, T, column) ==
  [ok |-> FALSE, panic |-> FALSE,
   squares |-> [r \in DOMAIN sq |-> [c \in DOMAIN sq[r] |->
                  sq[r][c] \/ \E k \in 1 .. 4 :
                     layout(T, column, fb)[k] = <<c - 1, r - 1>>]],
   first_blank |-> fb, row |-> 0 - 1, top |-> 0 - 1, cleared |-> 0]

\* place returns the error of placement_at: the grid is as it was
rejected(sq, fb, T, column) ==
  [ok |-> FALSE, panic |-> FALSE, squares |-> sq, first_blank |-> fb,
   row |-> 0 - 1, top |-> 0 - 1, cleared |-> 0]

\* Grid::place::<T>(column) on the grid (sq, fb): the result and the grid it
\* leaves, with the anchor row and the top row of the chosen placement
place(sq, fb, T, column) ==
  LET base == placement_at(T, <<column, fb>>)
      failed == rejected(sq, fb, T, column)
  IN IF ~base.ok THEN failed
     ELSE LET s == scan(sq, T, column, fb - 1, [cells |-> base.cells, row |-> fb])
          IN IF ~s.ok THEN failed
             ELSE LET placement == s.cells
                      marked == mark(sq, placement)
                      top == placement[4][2]
                      c == clear_rows(marked, raise(fb, top, T), top, 0, height(T), 0)
                  IN [ok |-> TRUE, panic |-> c.panic, squares |-> c.squares,
                      first_blank |-> c.first_blank,
                      row |-> s.row, top |-> top,
                      cleared |-> c.cleared]

\* Grid::height
grid_height(fb) == fb

----------------------------------------------------------------------------
\* solve: one input line, a sequence of tokens <<shape, column>>

Rep(n, t) == [k \in 1 .. n |-> t]

\* the lines that the input starts with: lines of tests::examples and
\* tests::extras, lines that stack pieces up to the top of the grid, and
\* beginnings of the test lines
Scripts ==
  << << <<"Q", 0>> >>,
     << <<"Q", 0>>, <<"Q", 1>> >>,
     << <<"Q", 0>>, <<"Q", 2>>, <<"Q", 4>>, <<"Q", 6>>, <<"Q", 8>> >>,
     << <<"I", 0>>, <<"I", 4>>, <<"Q", 8>> >>,
     << <<"L", 0>>, <<"Z", 1>>, <<"Z", 3>>, <<"Z", 5>>, <<"Z", 7>> >>,
     << <<"I", 0>>, <<"I", 6>>, <<"T", 4>>, <<"J", 8>>, <<"T", 6>>, <<"I", 0>>, <<"T", 3>> >>,
     << <<"L", 0>>, <<"J", 3>>, <<"L", 5>>, <<"J", 8>>, <<"T", 1>>, <<"T", 6>>,
        <<"S", 2>>, <<"Z", 5>>, <<"T", 0>>, <<"T", 7>> >>,
     << <<"Q", 0>>, <<"I", 2>>, <<"I", 6>>, <<"I", 0>>, <<"I", 6>>, <<"I", 6>>,
        <<"Q", 2>>, <<"Q", 4>> >>,
     Rep((GRID_HEIGHT \div 3) - 1, <<"L", 0>>) \o Rep(4, <<"I", 0>>),
     Rep((GRID_HEIGHT \div 3) - 1, <<"L", 0>>) \o Rep(2, <<"I", 0>>),
     << <<"Q", 0>>, <<"I", 2>>, <<"I", 6>>, <<"I", 0>> >>,
     << <<"Q", 0>>, <<"Q", 2>>, <<"Q", 4>>, <<"Q", 6>> >>,
     << <<"I", 0>>, <<"I", 6>>, <<"T", 4>>, <<"J", 8>>, <<"T", 6>> >>,
     << <<"L", 0>>, <<"J", 3>>, <<"L", 5>>, <<"J", 8>>, <<"T", 1>> >>,
     << <<"T", 1>>, <<"Z", 3>>, <<"I", 4>> >>,
     << <<"S", 0>>, <<"S", 2>>, <<"S", 4>>, <<"S", 6>> >>,
     << <<"T", 0>>, <<"T", 3>>, <<"I", 6>>, <<"I", 6>> >> >>

NoCall == [shape |-> "", column |-> 0, ok |-> TRUE, panic |-> FALSE, row |-> 0,
           top |-> 0, cleared |-> 0, squares |-> new_squares, first_blank |-> 0,
           n |-> 0, k |-> 0]

NoCat == [shape |-> "", at |-> <<0, 0>>, done |-> FALSE, ok |-> FALSE, cells |-> << >>]

Init ==
  /\ squares = new_squares
  /\ first_blank = 0
  /\ status = "running"
  /\ script \in DOMAIN Scripts
  /\ pos = 0
  /\ free = 0
  /\ reported = 0 - 1
  /\ last = NoCall
  /\ cat = NoCat

\* one iteration of the loop of solve on the token <<T, column>>: the call
\* of place and the ? that ends solve on an error; last.n counts the
\* successful calls of the line and last.k the rows they removed
Entry(T, column) ==
  \E r \in {place(squares, first_blank, T, column)} :
     /\ squares' = r.squares
     /\ first_blank' = r.first_blank
     /\ status' = IF r.panic THEN "panicked" ELSE IF r.ok THEN "running" ELSE "failed"
     /\ last' = [shape |-> T, column |-> column, ok |-> r.ok, panic |-> r.panic,
                 row |-> r.row, top |-> r.top, cleared |-> r.cleared,
                 squares |-> squares, first_blank |-> first_blank,
                 n |-> IF r.ok THEN last.n + 1 ELSE last.n,
                 k |-> last.k + r.cleared]
     /\ UNCHANGED <<script, reported, cat>>

\* the next token of the line is the next token of the script
SolveScripted ==
  /\ status = "running"
  /\ free = 0
  /\ pos < Len(Scripts[script])
  /\ Entry(Scripts[script][pos + 1][1], Scripts[script][pos + 1][2])
  /\ pos' = pos + 1
  /\ free' = free

\* the scripted line is followed by a token of any shape and any column
SolveFree ==
  /\ status = "running"
  /\ pos = Len(Scripts[script])
  /\ free < MaxFree
  /\ \E T \in Shapes, column \in Columns : Entry(T, column)
  /\ free' = free + 1
  /\ pos' = pos

\* SolveReturn that drops the error of place and reports the height anyway
SolveReturn_after_error ==
  /\ status \in {"running", "failed"}
  /\ status' = "done"
  /\ reported' = grid_height(first_blank)
  /\ UNCHANGED <<squares, first_blank, script, pos, free, last, cat>>

\* the line has no more tokens: Ok(grid.height())
SolveReturn ==
  /\ status = "running"
  /\ status' = "done"
  /\ reported' = grid_height(first_blank)
  /\ UNCHANGED <<squares, first_blank, script, pos, free, last, cat>>

Next == SolveScripted \/ SolveFree \/ SolveReturn

Spec == Init /\ [][Next]_vars

----------------------------------------------------------------------------
\* The shape catalog on its own: placement_at applied to one shape and one
\* anchor, inside and outside the grid

InitCatalog ==
  /\ squares = new_squares
  /\ first_blank = 0
  /\ status = "running"
  /\ script = 1
  /\ pos = 0
  /\ free = 0
  /\ reported = 0 - 1
  /\ last = NoCall
  /\ \E T \in Shapes, x \in 0 .. MaxX, y \in 0 .. MaxY :
       cat = [shape |-> T, at |-> <<x, y>>, done |-> FALSE, ok |-> FALSE, cells |-> << >>]

PlacementAt ==
  /\ ~cat.done
  /\ \E p \in {placement_at(cat.shape, cat.at)} :
       cat' = [cat EXCEPT !.done = TRUE, !.ok = p.ok, !.cells = p.cells]
  /\ UNCHANGED <<squares, first_blank, status, script, pos, free, reported, last>>

NextCatalog == PlacementAt

SpecCatalog == InitCatalog /\ [][NextCatalog]_vars

----------------------------------------------------------------------------
\* Properties of the shape catalog (under SpecCatalog)

\* the table of section 4.1 of the specification: bounding box and relative
\* squares of each shape
Table ==
  [Q |-> [width |-> 2, height |-> 2, rel |-> {<<0, 0>>, <<1, 0>>, <<0, 1>>, <<1, 1>>}],
   Z |-> [width |-> 3, height |-> 2, rel |-> {<<1, 0>>, <<2, 0>>, <<0, 1>>, <<1, 1>>}],
   S |-> [width |-> 3, height |-> 2, rel |-> {<<0, 0>>, <<1, 0>>, <<1, 1>>, <<2, 1>>}],
   T |-> [width |-> 3, height |-> 2, rel |-> {<<1, 0>>, <<0, 1>>, <<1, 1>>, <<2, 1>>}],
   I |-> [width |-> 4, height |-> 1, rel |-> {<<0, 0>>, <<1, 0>>, <<2, 0>>, <<3, 0>>}],
   L |-> [width |-> 2, height |-> 3, rel |-> {<<0, 0>>, <<1, 0>>, <<0, 1>>, <<0, 2>>}],
   J |-> [width |-> 2, height |-> 3, rel |-> {<<0, 0>>, <<1, 0>>, <<1, 1>>, <<1, 2>>}]]

CellSet(cells) == {cells[k] : k \in DOMAIN cells}

\* C4: for each shape and anchor (x, y), placement_at fails when
\* x > W - width or y > H - height, and otherwise returns exactly the 4
\* distinct squares of the table of the specification translated by (x, y),
\* all inside the grid and inside the bounding box of the shape.
C4_CatalogContract ==
  cat.done =>
    LET t == Table[cat.shape]
        x == cat.at[1]
        y == cat.at[2]
    IN /\ cat.ok <=> ~(x > 10 - t.width \/ y > 100 - t.height)
       /\ cat.ok =>
            /\ Len(cat.cells) = 4
            /\ Cardinality(CellSet(cat.cells)) = 4
            /\ CellSet(cat.cells) = {<<x + d[1], y + d[2]>> : d \in t.rel}
            /\ \A c \in CellSet(cat.cells) :
                 /\ 0 <= c[1] /\ c[1] < 10 /\ 0 <= c[2] /\ c[2] < 100
                 /\ x <= c[1] /\ c[1] <= x + t.width - 1
                 /\ y <= c[2] /\ c[2] <= y + t.height - 1

\* a placement on the last legal anchor of a shape
C4_Witness ==
  /\ cat.done /\ cat.ok
  /\ cat.at[1] = 10 - Table[cat.shape].width
  /\ cat.at[2] = 100 - Table[cat.shape].height

\* C5: for every shape and in-bounds anchor (x, y) the 4th square has the
\* maximum row of the four squares, and that row is y + height - 1.
C5_LastIsTop ==
  (cat.done /\ cat.ok) =>
    /\ cat.cells[4][2] = cat.at[2] + Table[cat.shape].height - 1
    /\ \A k \in 1 .. 4 : cat.cells[k][2] <= cat.cells[4][2]

C5_Witness == cat.done /\ cat.ok /\ cat.shape = "L" /\ cat.at[2] > 0

\* the number of squares of a placement in the row of its last square
InTopRow(cells) == Cardinality({k \in 1 .. 4 : cells[k][2] = cells[4][2]})

\* C6 as stated: the last square has the strictly maximum row, no other
\* square of the placement is in the row of the last one.
C6_StrictlyTop ==
  (cat.done /\ cat.ok) => \A k \in 1 .. 3 : cat.cells[k][2] < cat.cells[4][2]

\* C6 amended: no square of the placement is in a row above the last one;
\* the last square is alone in its row for L and J only, it shares the row
\* with one other square for Q, Z and S, with two for T and with three for I.
C6_TopShared ==
  (cat.done /\ cat.ok) =>
    /\ \A k \in 1 .. 3 : ~(cat.cells[k][2] > cat.cells[4][2])
    /\ InTopRow(cat.cells) =
         CASE cat.shape \in {"L", "J"} -> 1
           [] cat.shape \in {"Q", "Z", "S"} -> 2
           [] cat.shape = "T" -> 3
           [] cat.shape = "I" -> 4

C6_Witness == cat.done /\ cat.ok /\ cat.shape = "T" /\ InTopRow(cat.cells) = 3

----------------------------------------------------------------------------
\* Properties of the grid (under Spec); last is the latest call of place
\* with the grid it was called on

Called == last.shape # ""

Rows == 0 .. Len(squares) - 1

RowEmpty(sq, y) == \A x \in DOMAIN sq[y + 1] : ~sq[y + 1][x]

\* C1: from Grid::new and after any sequence of place calls no square of a
\* row >= first_blank is occupied and no row < first_blank is fully occupied.
C1_GridInvariant ==
  \A y \in Rows :
    /\ y >= first_blank => RowEmpty(squares, y)
    /\ y < first_blank => \E x \in 1 .. 10 : ~squares[y + 1][x]

\* a successful place that filled and removed a row and left blocks behind
C1_Witness == Called /\ last.ok /\ last.cleared >= 1 /\ first_blank >= 1

\* C2: a place call either succeeds or returns an error having changed
\* neither the squares nor first_blank.
C2_FailureAtomic ==
  (Called /\ ~last.ok) =>
    /\ status = "failed"
    /\ squares = last.squares
    /\ first_blank = last.first_blank

\* a failed place on a grid that holds blocks
C2_Witness == Called /\ ~last.ok /\ last.first_blank >= 1 /\ last.first_blank < 90

\* C3: height() returns first_blank and leaves the grid as it is, and its
\* value is always >= 0 and <= 100.
C3_HeightInRange ==
  /\ [](first_blank >= 0 /\ first_blank <= 100)
  /\ [](status = "done" => reported = first_blank)
  /\ [][status' = "done" => (squares' = squares /\ first_blank' = first_blank)]_vars

\* the height of a grid stacked to the top is reported
C3_Witness == status = "done" /\ reported = 100

\* C7: the anchor row r of a successful place is never below a row r' with
\* r < r' <= old first_blank at which the placement overlaps a square that
\* was occupied before the call.
C7_NoTunneling ==
  (Called /\ last.ok) =>
    \A r \in (last.row + 1) .. last.first_blank :
      LET p == placement_at(last.shape, <<last.column, r>>)
      IN p.ok /\ can_place(last.squares, p.cells)

\* the piece stopped on a block although it fits in a row further down
C7_Witness ==
  /\ Called /\ last.ok
  /\ \E r \in 0 .. (last.row - 2) :
       /\ can_place(last.squares, placement_at(last.shape, <<last.column, r>>).cells)
       /\ ~can_place(last.squares, placement_at(last.shape, <<last.column, last.row - 1>>).cells)

\* the columns under the bounding box of the latest call held no block
ColumnsEmpty ==
  \A x \in last.column .. (last.column + Table[last.shape].width - 1) :
    \A y \in 0 .. Len(last.squares) - 1 : ~square(last.squares, x, y)

\* C8: a successful place into columns that are empty from bottom to top
\* leaves the piece with its anchor row at row 0.
C8_DropToFloor == (Called /\ last.ok /\ ColumnsEmpty) => last.row = 0

\* a piece that fell to the floor beside a stack
C8_Witness == Called /\ last.ok /\ ColumnsEmpty /\ last.first_blank >= 3 /\ last.row = 0

NoSquareOccupied == \A y \in Rows : RowEmpty(squares, y)

\* C9: when the placements have cleared every occupied row, so that no
\* square is occupied, the height is 0.
C9_EmptyGridHeight ==
  NoSquareOccupied =>
    /\ grid_height(first_blank) = 0
    /\ status = "done" => reported = 0

\* a line whose pieces tile and clear every row, and its reported height
C9_Witness ==
  /\ Called /\ last.ok /\ last.cleared = 2 /\ NoSquareOccupied
  /\ status = "done" /\ reported = 0

\* the heights of the 6 scenarios of the specification (scripts 1 to 6)
Expected == <<2, 4, 0, 1, 2, 2>>

\* C10: the lines Q0; Q0,Q1; Q0,Q2,Q4,Q6,Q8; I0,I4,Q8; L0,Z1,Z3,Z5,Z7 and
\* I0,I6,T4,J8,T6,I0,T3 on a fresh grid give the heights 2, 4, 0, 1, 2, 2,
\* and in the last line the second I0 clears a row and T3 falls to row 0.
C10_Scenarios ==
  (script \in 1 .. 6 /\ free = 0) =>
    /\ (status = "done" /\ pos = Len(Scripts[script])) => reported = Expected[script]
    /\ status # "failed" /\ status # "panicked"
    /\ (script = 6 /\ pos = 6) => (last.cleared = 1 /\ last.first_blank = 4 /\ first_blank = 3)
    /\ (script = 6 /\ pos = 7) => (last.shape = "T" /\ last.row = 0 /\ last.top = 1)

C10_Witness ==
  /\ script = 6 /\ free = 0 /\ pos = 7 /\ status = "done" /\ reported = 2
  /\ last.row = 0

\* C11 as stated: for every shape and every column 0 <= column < 10 some
\* anchor row is legal, and a place that fails does not fail because of the
\* column (it fails because first_blank is too high for the shape).
C11_EveryColumnLegal ==
  (Called /\ last.column \in 0 .. 9) =>
    /\ \E y \in 0 .. 99 : placement_at(last.shape, <<last.column, y>>).ok
    /\ ~last.ok => last.first_blank > 100 - Table[last.shape].height

\* C11 amended: a column <= 10 - width has a legal anchor (row 0) and place
\* fails there only when first_blank > 100 - height; a column with
\* 10 - width < column < 10 has no legal anchor in any row and place fails
\* on every grid.
C11_ColumnLegalUpToWidth ==
  (Called /\ last.column \in 0 .. 9) =>
    IF last.column <= 10 - Table[last.shape].width
      THEN /\ placement_at(last.shape, <<last.column, 0>>).ok
           /\ ~last.ok => last.first_blank > 100 - Table[last.shape].height
      ELSE /\ \A y \in 0 .. 99 : ~placement_at(last.shape, <<last.column, y>>).ok
           /\ ~last.ok

\* a piece accepted in the last column that holds it, on a grid with blocks
C11_Witness ==
  /\ Called /\ last.ok /\ last.first_blank >= 1
  /\ last.column = 10 - Table[last.shape].width

\* the shape of the latest call, anchored at row r of its column, is inside
\* the grid and covers no square that was occupied before the call
Fits(r) ==
  LET p == placement_at(last.shape, <<last.column, r>>)
  IN p.ok /\ can_place(last.squares, p.cells)

\* C12: the anchor row r of a successful place is first_blank when
\* first_blank = 0 or the placement at first_blank - 1 is blocked, and
\* otherwise the least r with the placements at all of r .. first_blank - 1
\* free; in both cases r = 0 or the placement at r - 1 is blocked.
C12_StraightDrop ==
  (Called /\ last.ok) =>
    LET fb == last.first_blank
        r == last.row
    IN /\ (fb = 0 \/ ~Fits(fb - 1)) => r = fb
       /\ (fb > 0 /\ Fits(fb - 1)) =>
            /\ 0 <= r /\ r < fb
            /\ \A q \in r .. (fb - 1) : Fits(q)
       /\ r = 0 \/ ~Fits(r - 1)

\* a piece that fell several rows below first_blank and came to rest on a block
C12_Witness ==
  /\ Called /\ last.ok
  /\ last.row >= 1 /\ last.row + 2 <= last.first_blank

\* C13: in every state the baseline placement of any shape at
\* (column, first_blank), when inside the grid, covers only empty squares,
\* and the squares a successful place marked were all empty before the call.
C13_NoOverlap ==
  /\ \A T \in Shapes, column \in Columns :
       LET p == placement_at(T, <<column, first_blank>>)
       IN p.ok => can_place(squares, p.cells)
  /\ (Called /\ last.ok) => (Fits(last.first_blank) /\ Fits(last.row))

\* a piece that rested at the baseline, on top of a stack
C13_Witness ==
  /\ Called /\ last.ok
  /\ last.first_blank >= 1 /\ last.row = last.first_blank

\* the grid of the latest call once the piece is marked at its resting row
Marked == mark(last.squares, placement_at(last.shape, <<last.column, last.row>>).cells)

\* first_blank of the latest call once the piece is marked
Raised == IF last.top + 1 > last.first_blank THEN last.top + 1 ELSE last.first_blank

FullRow == [x \in 1 .. 10 |-> TRUE]

IsNotFull(row) == row # FullRow

\* mark-then-compact: all full rows are identified at once, the others keep
\* their order and the grid is padded with blank rows at the top
Compact(sq) ==
  LET keep == SelectSeq(sq, IsNotFull)
  IN keep \o [k \in 1 .. (Len(sq) - Len(keep)) |-> BlankRow]

FullCount(sq) == Cardinality({y \in DOMAIN sq : sq[y] = FullRow})

\* C14: after every successful place the squares and first_blank left by the
\* coded row by row clearing, top row first, are those of a clearer that
\* identifies every full row of the marked grid and removes them at once.
C14_ClearOrderIndependent ==
  (Called /\ last.ok) =>
    /\ squares = Compact(Marked)
    /\ first_blank = Raised - FullCount(Marked)

\* a placement that fills two rows of its span at once
C14_Witness == Called /\ last.ok /\ last.cleared = 2 /\ FullCount(Marked) = 2

\* C15: a place that clears a single row y leaves every row below y as it
\* was once the piece was marked, moves each row k > y to k - 1, leaves the
\* top row 99 blank and lowers first_blank by exactly 1; in every state the
\* grid has exactly 100 rows of 10 squares.
C15_SingleClearFrame ==
  /\ Len(squares) = 100
  /\ \A r \in DOMAIN squares : DOMAIN squares[r] = 1 .. 10
  /\ (Called /\ last.ok /\ last.cleared = 1) =>
       LET m == Marked
           y == CHOOSE y \in 0 .. 99 : m[y + 1] = FullRow
       IN /\ FullCount(m) = 1
          /\ \A k \in 0 .. (y - 1) : squares[k + 1] = m[k + 1]
          /\ \A k \in (y + 1) .. 99 : squares[(k - 1) + 1] = m[k + 1]
          /\ squares[99 + 1] = BlankRow
          /\ first_blank = Raised - 1

\* a single row cleared in the middle of the stack: blocks below and above it
C15_Witness ==
  /\ Called /\ last.ok /\ last.cleared = 1
  /\ \E y \in 1 .. 98 :
       Marked[y + 1] = FullRow /\ Marked[y] # BlankRow /\ Marked[y + 2] # BlankRow

InGrid(c) == 0 <= c[1] /\ c[1] < 10 /\ 0 <= c[2] /\ c[2] < 100

\* C16: in every successful place the rows top - i inspected for
\* i in 0 .. height - 1 are >= 0 and inside the grid, every square read by
\* the scan or marked is inside the 10 x 100 grid, and first_blank is >= 1
\* whenever the row clearer decrements it (the call does not panic).
C16_NoUnderflow ==
  /\ status # "panicked"
  /\ (Called /\ last.ok) =>
       /\ ~last.panic
       /\ \A i \in 0 .. (Table[last.shape].height - 1) :
            last.top - i >= 0 /\ last.top - i < 100
       /\ \A r \in (IF last.row >= 1 THEN last.row - 1 ELSE 0) .. last.first_blank :
            \A c \in CellSet(layout(last.shape, last.column, r)) : InGrid(c)
       /\ \A j \in 0 .. (last.cleared - 1) : Raised - j >= 1
       /\ first_blank = Raised - last.cleared

\* a piece of height 2 or more resting on the floor whose call cleared a row
C16_Witness ==
  /\ Called /\ last.ok /\ last.row = 0
  /\ Table[last.shape].height >= 2 /\ last.cleared >= 1

\* C17: place returns an error if and only if column > 10 - width or
\* first_blank > 100 - height at entry; the scan of the lower rows raises no
\* error of its own and in every other case place succeeds.
C17_ExactFailure ==
  Called =>
    /\ ~last.ok <=> (\/ last.column > 10 - Table[last.shape].width
                     \/ last.first_blank > 100 - Table[last.shape].height)
    /\ last.ok <=> status \in {"running", "done"}
    /\ ~last.ok <=> status = "failed"

\* a place rejected for its height only: the column holds the shape and the
\* grid is not yet full
C17_Witness ==
  /\ Called /\ ~last.ok
  /\ last.column <= 10 - Table[last.shape].width
  /\ last.first_blank <= 99

OccupiedRows == {y \in Rows : squares[y + 1] # BlankRow}

\* C19: every row below first_blank holds at least one block, so height()
\* is 1 + the highest occupied row, and it is 0 exactly when the grid holds
\* no block.
C19_HeightTight ==
  \A occ \in {OccupiedRows} :
    /\ \A y \in 0 .. (first_blank - 1) : y \in occ
    /\ \A y \in occ : y + 1 <= grid_height(first_blank)
    /\ grid_height(first_blank) >= 1 => (grid_height(first_blank) - 1) \in occ
    /\ grid_height(first_blank) = 0 <=> occ = {}
    /\ status = "done" => (reported = 0 <=> occ = {})

\* a stack of several rows left after a row was cleared
C19_Witness == Called /\ last.ok /\ last.cleared >= 1 /\ first_blank >= 2

\* the number of occupied squares of the rows rs of a grid
CountIn(sq, rs) == Cardinality({c \in rs \X (1 .. 10) : sq[c[1]][c[2]]})

\* the number of occupied squares of a grid
Count(sq) == CountIn(sq, {r \in DOMAIN sq : sq[r] # BlankRow})

\* the rows that the latest call changed
Changed == {r \in DOMAIN squares : squares[r] # last.squares[r]}

\* the number of occupied squares now minus the number before the latest
\* call: the rows that did not change count the same on both sides
Gained == CountIn(squares, Changed) - CountIn(last.squares, Changed)

\* C20: a successful place changes the number of occupied squares by
\* 4 - 10 * c, for c the number of rows it removed, 0 <= c <= height, and
\* every removed row holds a square of the piece; after n successful calls
\* that removed k rows the grid holds 4 * n - 10 * k occupied squares; a
\* failed place leaves the number as it was.
C20_CellConservation ==
  /\ Count(squares) = 4 * last.n - 10 * last.k
  /\ (Called /\ ~last.ok) => Gained = 0
  /\ (Called /\ last.ok) =>
       /\ Gained = 4 - 10 * last.cleared
       /\ 0 <= last.cleared /\ last.cleared <= Table[last.shape].height
       /\ \A m \in {Marked} :
            /\ last.cleared = FullCount(m)
            /\ \A y \in 0 .. 99 :
                 m[y + 1] = FullRow =>
                   \E c \in CellSet(layout(last.shape, last.column, last.row)) : c[2] = y

\* a line whose calls removed several rows and left blocks behind
C20_Witness ==
  /\ Called /\ last.ok /\ last.cleared >= 1 /\ status = "done"
  /\ last.k >= 2 /\ last.n >= 6 /\ Count(squares) = 12
====
